---- MODULE Spec2Model ----
(***************************************************************************)
(* Route planner (DA2425): the graph store of graph.hpp, its two Dijkstra  *)
(* searches, the alternate / restricted route composers and the            *)
(* park-and-walk planner of storage.cpp.                                   *)
(*                                                                         *)
(* Vertices are heap objects reached through idToVertexMap; a live vertex  *)
(* is identified by its id (ids are unique among live vertices).  Edges    *)
(* are heap objects identified by an address (a positive integer); the     *)
(* variable edges is the set of live Edge objects.  Doubles are modelled   *)
(* by naturals, numeric_limits<double>::max() by INF.                      *)
(***************************************************************************)
EXTENDS Integers, Sequences, FiniteSets, TLC

VARIABLES idToVertexMap, codeToVertexMap, edges, call, out, crashed

vars == <<idToVertexMap, codeToVertexMap, edges, call, out, crashed>>

(***************************************************************************)
(* Bounds of the graph-store exploration.                                  *)
(***************************************************************************)
MaxId == 2
MaxEdges == 2

StoreIds == 1..MaxId
Codes == {"A", "B"}

(***************************************************************************)
(* Program constants.                                                      *)
(***************************************************************************)
INF == 1000000
NoEdge == 0

(***************************************************************************)
(* Generic helpers on finite maps and sequences.                           *)
(***************************************************************************)
Put(f, k, v) == [x \in (DOMAIN f) \cup {k} |-> IF x = k THEN v ELSE f[x]]

Drop(f, k) == [x \in (DOMAIN f) \ {k} |-> f[x]]

Range(s) == {s[i] : i \in DOMAIN s}

EmptyMap == [x \in {} |-> 0]

(***************************************************************************)
(* The graph as one value: the two indices and the live edges.             *)
(***************************************************************************)
Graph(vm, cm, es) == [idToVertexMap |-> vm, codeToVertexMap |-> cm, edges |-> es]

EmptyGraph == Graph(EmptyMap, EmptyMap, EmptyMap)

CurrentGraph == Graph(idToVertexMap, codeToVertexMap, edges)

\* Vertex::Vertex with the member initialisers of the class
Vertex(code, parking) ==
    [code |-> code, parkingSpace |-> parking, available |-> TRUE,
     visited |-> FALSE, dist |-> 0, path |-> NoEdge,
     adj |-> <<>>, incoming |-> <<>>]

\* Edge::Edge with the member initialisers of the class
Edge(orig, dest, w, d) ==
    [origin |-> orig, dest |-> dest, walkTime |-> w, driveTime |-> d,
     available |-> TRUE, reverse |-> NoEdge]

\* operator new: the lowest free address
NewEdge(g) ==
    CHOOSE a \in 1..(Cardinality(DOMAIN g.edges) + 1) :
        /\ a \notin DOMAIN g.edges
        /\ \A b \in 1..(a - 1) : b \in DOMAIN g.edges

\* Graph::findVertex(const T&): the id, or 0 for nullptr
findVertex(g, in) == IF in \in DOMAIN g.idToVertexMap THEN in ELSE 0

\* Graph::findVertex(const std::string&): the id of the indexed vertex, or 0
findVertexByCode(g, code) ==
    IF code \in DOMAIN g.codeToVertexMap THEN g.codeToVertexMap[code] ELSE 0

\* addVertex writing the code index before the duplicate-id test
addVertexIndexFirst(g, in, code, parking) ==
    IF in \in DOMAIN g.idToVertexMap
    THEN [ret |-> FALSE,
          g |-> Graph(g.idToVertexMap, Put(g.codeToVertexMap, code, in), g.edges)]
    ELSE [ret |-> TRUE,
          g |-> Graph(Put(g.idToVertexMap, in, Vertex(code, parking)),
                      Put(g.codeToVertexMap, code, in),
                      g.edges)]

\* Graph::addVertex: the returned flag and the graph after the call
addVertex(g, in, code, parking) ==
    IF in \in DOMAIN g.idToVertexMap
    THEN [ret |-> FALSE, g |-> g]
    ELSE [ret |-> TRUE,
          g |-> Graph(Put(g.idToVertexMap, in, Vertex(code, parking)),
                      Put(g.codeToVertexMap, code, in),
                      g.edges)]

\* addEdge that does not record the edge at its destination
VertexAddEdgeUnrecorded(g, src, dst, w, d) ==
    LET e == NewEdge(g)
        vm1 == [g.idToVertexMap EXCEPT ![src].adj = Append(@, e)]
    IN Graph(vm1, g.codeToVertexMap, Put(g.edges, e, Edge(src, dst, w, d)))

\* Vertex::addEdge: new Edge, pushed on adj of the origin and incoming of dest
VertexAddEdge(g, src, dst, w, d) ==
    LET e == NewEdge(g)
        vm1 == [g.idToVertexMap EXCEPT ![src].adj = Append(@, e)]
        vm2 == [vm1 EXCEPT ![dst].incoming = Append(@, e)]
    IN Graph(vm2, g.codeToVertexMap, Put(g.edges, e, Edge(src, dst, w, d)))

\* addEdge creating the edge from dest to sourc
addEdgeReversed(g, sourc, dest, w, d) ==
    IF findVertex(g, sourc) = 0 \/ findVertex(g, dest) = 0
    THEN [ret |-> FALSE, g |-> g]
    ELSE [ret |-> TRUE, g |-> VertexAddEdge(g, dest, sourc, w, d)]

\* Graph::addEdge
addEdge(g, sourc, dest, w, d) ==
    IF findVertex(g, sourc) = 0 \/ findVertex(g, dest) = 0
    THEN [ret |-> FALSE, g |-> g]
    ELSE [ret |-> TRUE, g |-> VertexAddEdge(g, sourc, dest, w, d)]

\* Graph::addBidirectionalEdge
addBidirectionalEdge(g, sourc, dest, w, d) ==
    IF findVertex(g, sourc) = 0 \/ findVertex(g, dest) = 0
    THEN [ret |-> FALSE, g |-> g]
    ELSE LET e1 == NewEdge(g)
             g1 == VertexAddEdge(g, sourc, dest, w, d)
             e2 == NewEdge(g1)
             g2 == VertexAddEdge(g1, dest, sourc, w, d)
         IN [ret |-> TRUE,
             g |-> Graph(g2.idToVertexMap, g2.codeToVertexMap,
                         [g2.edges EXCEPT ![e1].reverse = e2, ![e2].reverse = e1])]

\* deleteEdge emptying dest's incoming list
deleteEdgeAllIncoming(g, u, edge) ==
    Graph([g.idToVertexMap EXCEPT ![g.edges[edge].dest].incoming = <<>>],
          g.codeToVertexMap,
          Drop(g.edges, edge))

\* Vertex::deleteEdge called on vertex u: every entry of dest's incoming list
\* whose origin is u is erased, then the edge is freed
deleteEdge(g, u, edge) ==
    LET dest == g.edges[edge].dest
        keep(x) == ~(x \in DOMAIN g.edges /\ g.edges[x].origin = u)
    IN Graph([g.idToVertexMap EXCEPT ![dest].incoming = SelectSeq(@, keep)],
             g.codeToVertexMap,
             Drop(g.edges, edge))

\* the loop of Vertex::removeEdge from position i of the adjacency list
RECURSIVE RemoveEdgeLoop(_, _, _, _, _)
RemoveEdgeLoop(g, u, in, i, removedEdge) ==
    LET adj == g.idToVertexMap[u].adj
    IN IF i > Len(adj)
       THEN [ret |-> removedEdge, g |-> g]
       ELSE LET edge == adj[i]
            IN IF g.edges[edge].dest = in
               THEN LET erased == [j \in 1..(Len(adj) - 1) |->
                                      IF j < i THEN adj[j] ELSE adj[j + 1]]
                        g1 == Graph([g.idToVertexMap EXCEPT ![u].adj = erased],
                                    g.codeToVertexMap, g.edges)
                    IN RemoveEdgeLoop(deleteEdge(g1, u, edge), u, in, i, TRUE)
               ELSE RemoveEdgeLoop(g, u, in, i + 1, removedEdge)

\* Vertex::removeEdge
VertexRemoveEdge(g, u, in) == RemoveEdgeLoop(g, u, in, 1, FALSE)

\* Graph::removeEdge
removeEdge(g, sourc, dest) ==
    IF findVertex(g, sourc) = 0
    THEN [ret |-> FALSE, g |-> g]
    ELSE VertexRemoveEdge(g, sourc, dest)

\* Vertex::removeOutgoingEdges
RECURSIVE removeOutgoingEdges(_, _)
removeOutgoingEdges(g, u) ==
    LET adj == g.idToVertexMap[u].adj
    IN IF adj = <<>>
       THEN g
       ELSE LET g1 == Graph([g.idToVertexMap EXCEPT ![u].adj = Tail(adj)],
                            g.codeToVertexMap, g.edges)
            IN removeOutgoingEdges(deleteEdge(g1, u, Head(adj)), u)

\* removeVertex that forgets the incoming edges
RemoveIncomingLoopSkipped(g, snapshot, i, in, uaf) ==
    {[g |-> g, crashed |-> FALSE, uaf |-> Len(snapshot) > 1]}

\* The loop of Graph::removeVertex over the snapshot of the incoming list.
\* e->getOrigin() on an edge freed by an earlier iteration reads freed
\* memory: the read yields any vertex address, or the process dies.
\* The result is the set of possible outcomes.
RECURSIVE RemoveIncomingLoop(_, _, _, _, _)
RemoveIncomingLoop(g, snapshot, i, in, uaf) ==
    IF i > Len(snapshot)
    THEN {[g |-> g, crashed |-> FALSE, uaf |-> uaf]}
    ELSE LET e == snapshot[i]
         IN IF e \in DOMAIN g.edges
            THEN RemoveIncomingLoop(VertexRemoveEdge(g, g.edges[e].origin, in).g,
                                    snapshot, i + 1, in, uaf)
            ELSE {[g |-> g, crashed |-> TRUE, uaf |-> TRUE]} \cup
                 UNION {RemoveIncomingLoop(VertexRemoveEdge(g, x, in).g,
                                           snapshot, i + 1, in, TRUE) :
                        x \in DOMAIN g.idToVertexMap}

\* removeVertex that frees the outgoing edges and then leaves the vertex in place
removeVertexOutgoingOnly(g, in) ==
    IF in \notin DOMAIN g.idToVertexMap
    THEN {[ret |-> FALSE, g |-> g, crashed |-> FALSE, uaf |-> FALSE]}
    ELSE {[ret |-> TRUE, g |-> removeOutgoingEdges(g, in), crashed |-> FALSE, uaf |-> FALSE]}

\* Graph::removeVertex: the set of possible outcomes
removeVertex(g, in) ==
    IF in \notin DOMAIN g.idToVertexMap
    THEN {[ret |-> FALSE, g |-> g, crashed |-> FALSE, uaf |-> FALSE]}
    ELSE LET g1 == removeOutgoingEdges(g, in)
             snapshot == g1.idToVertexMap[in].incoming
             code == g1.idToVertexMap[in].code
         IN {IF r.crashed
             THEN [ret |-> FALSE, g |-> r.g, crashed |-> TRUE, uaf |-> TRUE]
             ELSE [ret |-> TRUE,
                   g |-> Graph(Drop(r.g.idToVertexMap, in),
                               Drop(r.g.codeToVertexMap, code),
                               r.g.edges),
                   crashed |-> FALSE, uaf |-> r.uaf] :
             r \in RemoveIncomingLoop(g1, snapshot, 1, in, FALSE)}

(***************************************************************************)
(* Graph-store actions.                                                    *)
(***************************************************************************)
SetGraph(g) ==
    /\ idToVertexMap' = g.idToVertexMap
    /\ codeToVertexMap' = g.codeToVertexMap
    /\ edges' = g.edges

AddVertex(in, code, parking) ==
    /\ ~crashed
    /\ LET r == addVertex(CurrentGraph, in, code, parking)
       IN /\ SetGraph(r.g)
          /\ out' = [kind |-> "bool", ret |-> r.ret]
    /\ call' = [op |-> "addVertex"]
    /\ UNCHANGED crashed

RemoveVertex(in) ==
    /\ ~crashed
    /\ \E r \in removeVertex(CurrentGraph, in) :
          /\ SetGraph(r.g)
          /\ out' = [kind |-> "bool", ret |-> r.ret, uaf |-> r.uaf]
          /\ crashed' = r.crashed
    /\ call' = [op |-> "removeVertex"]

AddEdge(sourc, dest, w, d) ==
    /\ ~crashed
    /\ Cardinality(DOMAIN edges) + 1 <= MaxEdges
    /\ LET r == addEdge(CurrentGraph, sourc, dest, w, d)
       IN /\ SetGraph(r.g)
          /\ out' = [kind |-> "bool", ret |-> r.ret]
    /\ call' = [op |-> "addEdge"]
    /\ UNCHANGED crashed

AddBidirectionalEdge(sourc, dest, w, d) ==
    /\ ~crashed
    /\ Cardinality(DOMAIN edges) + 2 <= MaxEdges
    /\ LET r == addBidirectionalEdge(CurrentGraph, sourc, dest, w, d)
       IN /\ SetGraph(r.g)
          /\ out' = [kind |-> "bool", ret |-> r.ret]
    /\ call' = [op |-> "addBidirectionalEdge"]
    /\ UNCHANGED crashed

RemoveEdge(sourc, dest) ==
    /\ ~crashed
    /\ LET r == removeEdge(CurrentGraph, sourc, dest)
       IN /\ SetGraph(r.g)
          /\ out' = [kind |-> "bool", ret |-> r.ret]
    /\ call' = [op |-> "removeEdge"]
    /\ UNCHANGED crashed

InitStore ==
    /\ idToVertexMap = EmptyMap
    /\ codeToVertexMap = EmptyMap
    /\ edges = EmptyMap
    /\ call = [op |-> "idle"]
    /\ out = [kind |-> "idle"]
    /\ crashed = FALSE

NextStore ==
    \/ \E in \in StoreIds, code \in Codes : AddVertex(in, code, FALSE)
    \/ \E in \in StoreIds : RemoveVertex(in)
    \/ \E s \in StoreIds, d \in StoreIds : AddEdge(s, d, 1, 2)
    \/ \E s \in StoreIds, d \in StoreIds : AddBidirectionalEdge(s, d, 1, 2)
    \/ \E s \in StoreIds, d \in StoreIds : RemoveEdge(s, d)

SpecStore == InitStore /\ [][NextStore]_vars

(***************************************************************************)
(* Path search.  The scratch fields dist, path and visited live in the     *)
(* vertices; the priority queue is a std::priority_queue of vertex         *)
(* pointers over a vector, ordered by vertexComp, which reads the dist     *)
(* field of the queued vertex at the time of each comparison.  push and    *)
(* pop are std::push_heap / std::pop_heap as libstdc++ implements them.    *)
(***************************************************************************)
\* vertexComp::operator()
vertexComp(g, a, b) == g.idToVertexMap[a].dist > g.idToVertexMap[b].dist

\* std::__push_heap: sift value up from the hole (0-based indices)
RECURSIVE PushHeap(_, _, _, _, _)
PushHeap(g, h, holeIndex, topIndex, value) ==
    LET parent == (holeIndex - 1) \div 2
    IN IF holeIndex > topIndex /\ vertexComp(g, h[parent + 1], value)
       THEN PushHeap(g, [h EXCEPT ![holeIndex + 1] = h[parent + 1]],
                     parent, topIndex, value)
       ELSE [h EXCEPT ![holeIndex + 1] = value]

\* priority_queue::push: push_back, then push_heap
pqPush(g, pq, v) == PushHeap(g, Append(pq, v), Len(pq), 0, v)

\* the descent loop of std::__adjust_heap: the hole moves to the child that
\* vertexComp does not rank after its sibling
RECURSIVE AdjustDown(_, _, _, _)
AdjustDown(g, h, secondChild, len) ==
    IF secondChild < (len - 1) \div 2
    THEN LET right == 2 * (secondChild + 1)
             child == IF vertexComp(g, h[right + 1], h[right]) THEN right - 1 ELSE right
         IN AdjustDown(g, [h EXCEPT ![secondChild + 1] = h[child + 1]], child, len)
    ELSE [h |-> h, hole |-> secondChild]

\* std::__adjust_heap(first, 0, len, value)
AdjustHeap(g, h, len, value) ==
    LET d == AdjustDown(g, h, 0, len)
        last == IF len % 2 = 0 /\ d.hole = (len - 2) \div 2
                THEN [h |-> [d.h EXCEPT ![d.hole + 1] = d.h[2 * (d.hole + 1)]],
                      hole |-> 2 * (d.hole + 1) - 1]
                ELSE d
    IN PushHeap(g, last.h, last.hole, 0, value)

\* priority_queue::pop: pop_heap, then pop_back
pqPop(g, pq) ==
    LET n == Len(pq)
    IN IF n > 1
       THEN SubSeq(AdjustHeap(g, [pq EXCEPT ![n] = pq[1]], n - 1, pq[n]), 1, n - 1)
       ELSE <<>>

\* the initialisation loop of both searches
InitSearch(g) ==
    Graph([v \in DOMAIN g.idToVertexMap |->
              [g.idToVertexMap[v] EXCEPT !.dist = INF, !.path = NoEdge, !.visited = FALSE]],
          g.codeToVertexMap, g.edges)

SetDist(g, v, d) ==
    Graph([g.idToVertexMap EXCEPT ![v].dist = d], g.codeToVertexMap, g.edges)

\* the relaxation loop without the availability tests
RECURSIVE RelaxDrivingAnyFlag(_, _, _, _)
RelaxDrivingAnyFlag(g, pq, current, i) ==
    LET adj == g.idToVertexMap[current].adj
    IN IF i > Len(adj)
       THEN [g |-> g, pq |-> pq]
       ELSE LET edge == g.edges[adj[i]]
                neighbor == edge.dest
                new_dist == g.idToVertexMap[current].dist + edge.driveTime
            IN IF edge.driveTime = INF
               THEN RelaxDrivingAnyFlag(g, pq, current, i + 1)
               ELSE IF new_dist < g.idToVertexMap[neighbor].dist
                    THEN LET g1 == Graph([g.idToVertexMap EXCEPT
                                             ![neighbor].dist = new_dist,
                                             ![neighbor].path = adj[i]],
                                         g.codeToVertexMap, g.edges)
                         IN RelaxDrivingAnyFlag(g1, pqPush(g1, pq, neighbor), current, i + 1)
                    ELSE RelaxDrivingAnyFlag(g, pq, current, i + 1)

\* the relaxation that also takes an equal distance
RECURSIVE RelaxDrivingOnEqual(_, _, _, _)
RelaxDrivingOnEqual(g, pq, current, i) ==
    LET adj == g.idToVertexMap[current].adj
    IN IF i > Len(adj)
       THEN [g |-> g, pq |-> pq]
       ELSE LET edge == g.edges[adj[i]]
                neighbor == edge.dest
                new_dist == g.idToVertexMap[current].dist + edge.driveTime
            IN IF \/ edge.driveTime = INF
                  \/ ~edge.available
                  \/ ~g.idToVertexMap[neighbor].available
               THEN RelaxDrivingOnEqual(g, pq, current, i + 1)
               ELSE IF new_dist <= g.idToVertexMap[neighbor].dist
                    THEN LET g1 == Graph([g.idToVertexMap EXCEPT
                                             ![neighbor].dist = new_dist,
                                             ![neighbor].path = adj[i]],
                                         g.codeToVertexMap, g.edges)
                         IN RelaxDrivingOnEqual(g1, pqPush(g1, pq, neighbor), current, i + 1)
                    ELSE RelaxDrivingOnEqual(g, pq, current, i + 1)

\* the relaxation loop of dijkstraDriving over current's adjacency list
RECURSIVE RelaxDriving(_, _, _, _)
RelaxDriving(g, pq, current, i) ==
    LET adj == g.idToVertexMap[current].adj
    IN IF i > Len(adj)
       THEN [g |-> g, pq |-> pq]
       ELSE LET edge == g.edges[adj[i]]
                neighbor == edge.dest
                new_dist == g.idToVertexMap[current].dist + edge.driveTime
            IN IF \/ edge.driveTime = INF
                  \/ ~edge.available
                  \/ ~g.idToVertexMap[neighbor].available
               THEN RelaxDriving(g, pq, current, i + 1)
               ELSE IF new_dist < g.idToVertexMap[neighbor].dist
                    THEN LET g1 == Graph([g.idToVertexMap EXCEPT
                                             ![neighbor].dist = new_dist,
                                             ![neighbor].path = adj[i]],
                                         g.codeToVertexMap, g.edges)
                         IN RelaxDriving(g1, pqPush(g1, pq, neighbor), current, i + 1)
                    ELSE RelaxDriving(g, pq, current, i + 1)

\* the main loop of dijkstraDriving
RECURSIVE LoopDriving(_, _, _)
LoopDriving(g, pq, destVert) ==
    IF pq = <<>>
    THEN g
    ELSE LET current == pq[1]
             pq1 == pqPop(g, pq)
         IN IF g.idToVertexMap[current].visited
            THEN LoopDriving(g, pq1, destVert)
            ELSE LET g1 == Graph([g.idToVertexMap EXCEPT ![current].visited = TRUE],
                                 g.codeToVertexMap, g.edges)
                 IN IF current = destVert
                    THEN g1
                    ELSE LET r == RelaxDriving(g1, pq1, current, 1)
                         IN LoopDriving(r.g, r.pq, destVert)

\* the walking relaxation with the availability tests of the driving one
RECURSIVE RelaxWalkingFlagged(_, _, _, _)
RelaxWalkingFlagged(g, pq, current, i) ==
    LET adj == g.idToVertexMap[current].adj
    IN IF i > Len(adj)
       THEN [g |-> g, pq |-> pq]
       ELSE LET edge == g.edges[adj[i]]
                neighbor == edge.dest
                new_dist == g.idToVertexMap[current].dist + edge.walkTime
            IN IF \/ edge.walkTime = INF
                  \/ ~edge.available
                  \/ ~g.idToVertexMap[neighbor].available
               THEN RelaxWalkingFlagged(g, pq, current, i + 1)
               ELSE IF new_dist < g.idToVertexMap[neighbor].dist
                    THEN LET g1 == Graph([g.idToVertexMap EXCEPT
                                             ![neighbor].dist = new_dist,
                                             ![neighbor].path = adj[i]],
                                         g.codeToVertexMap, g.edges)
                         IN RelaxWalkingFlagged(g1, pqPush(g1, pq, neighbor), current, i + 1)
                    ELSE RelaxWalkingFlagged(g, pq, current, i + 1)

\* the relaxation loop of dijkstraWalking
RECURSIVE RelaxWalking(_, _, _, _)
RelaxWalking(g, pq, current, i) ==
    LET adj == g.idToVertexMap[current].adj
    IN IF i > Len(adj)
       THEN [g |-> g, pq |-> pq]
       ELSE LET edge == g.edges[adj[i]]
                neighbor == edge.dest
                new_dist == g.idToVertexMap[current].dist + edge.walkTime
            IN IF edge.walkTime = INF
               THEN RelaxWalking(g, pq, current, i + 1)
               ELSE IF new_dist < g.idToVertexMap[neighbor].dist
                    THEN LET g1 == Graph([g.idToVertexMap EXCEPT
                                             ![neighbor].dist = new_dist,
                                             ![neighbor].path = adj[i]],
                                         g.codeToVertexMap, g.edges)
                         IN RelaxWalking(g1, pqPush(g1, pq, neighbor), current, i + 1)
                    ELSE RelaxWalking(g, pq, current, i + 1)

\* the main loop of dijkstraWalking
RECURSIVE LoopWalking(_, _, _)
LoopWalking(g, pq, destVert) ==
    IF pq = <<>>
    THEN g
    ELSE LET current == pq[1]
             pq1 == pqPop(g, pq)
         IN IF g.idToVertexMap[current].visited
            THEN LoopWalking(g, pq1, destVert)
            ELSE LET g1 == Graph([g.idToVertexMap EXCEPT ![current].visited = TRUE],
                                 g.codeToVertexMap, g.edges)
                 IN IF current = destVert
                    THEN g1
                    ELSE LET r == RelaxWalking(g1, pq1, current, 1)
                         IN LoopWalking(r.g, r.pq, destVert)

\* the reconstruction without the final std::reverse
RECURSIVE ReconstructPathBackward(_, _, _)
ReconstructPathBackward(g, e, path) ==
    IF e = NoEdge
    THEN path
    ELSE ReconstructPathBackward(g, g.idToVertexMap[g.edges[e].origin].path, path \o <<e>>)

\* path reconstruction: follow the predecessor edges back from e, reversed
RECURSIVE ReconstructPath(_, _, _)
ReconstructPath(g, e, path) ==
    IF e = NoEdge
    THEN path
    ELSE ReconstructPath(g, g.idToVertexMap[g.edges[e].origin].path, <<e>> \o path)

\* Graph::dijkstraDriving: the graph after the call (scratch fields), whether
\* std::runtime_error was thrown, and the returned path (edge addresses)
dijkstraDriving(g, origin, destination) ==
    LET g0 == InitSearch(g)
    IN IF origin \notin DOMAIN g0.idToVertexMap \/ destination \notin DOMAIN g0.idToVertexMap
       THEN [g |-> g0, thrown |-> TRUE, path |-> <<>>]
       ELSE LET g1 == SetDist(g0, origin, 0)
                g2 == LoopDriving(g1, pqPush(g1, <<>>, origin), destination)
            IN [g |-> g2, thrown |-> FALSE,
                path |-> ReconstructPath(g2, g2.idToVertexMap[destination].path, <<>>)]

\* Graph::dijkstraWalking: an absent endpoint gives the empty path
dijkstraWalking(g, origin, destination) ==
    LET g0 == InitSearch(g)
    IN IF origin \notin DOMAIN g0.idToVertexMap \/ destination \notin DOMAIN g0.idToVertexMap
       THEN [g |-> g0, thrown |-> FALSE, path |-> <<>>]
       ELSE LET g1 == SetDist(g0, origin, 0)
                g2 == LoopWalking(g1, pqPush(g1, <<>>, origin), destination)
            IN [g |-> g2, thrown |-> FALSE,
                path |-> ReconstructPath(g2, g2.idToVertexMap[destination].path, <<>>)]

\* path.back()->getDest()->getDist() of a non-empty path
BackDist(g, path) == g.idToVertexMap[g.edges[path[Len(path)]].dest].dist

(***************************************************************************)
(* Exclusions shared by the restricted route and the park-and-walk planner.*)
(***************************************************************************)
SetVertexAvailable(g, v, b) ==
    Graph([g.idToVertexMap EXCEPT ![v].available = b], g.codeToVertexMap, g.edges)

SetEdgeAvailable(g, e, b) ==
    Graph(g.idToVertexMap, g.codeToVertexMap, [g.edges EXCEPT ![e].available = b])

\* the exclusion loop leaving at the first unknown id
RECURSIVE ExcludeNodesUntilUnknown(_, _, _)
ExcludeNodesUntilUnknown(g, avoidNodes, i) ==
    IF i > Len(avoidNodes)
    THEN g
    ELSE IF findVertex(g, avoidNodes[i]) = 0
         THEN g
         ELSE ExcludeNodesUntilUnknown(SetVertexAvailable(g, avoidNodes[i], FALSE),
                                       avoidNodes, i + 1)

\* "exclude requested nodes": unknown ids are skipped
RECURSIVE ExcludeNodes(_, _, _)
ExcludeNodes(g, avoidNodes, i) ==
    IF i > Len(avoidNodes)
    THEN g
    ELSE IF findVertex(g, avoidNodes[i]) = 0
         THEN ExcludeNodes(g, avoidNodes, i + 1)
         ELSE ExcludeNodes(SetVertexAvailable(g, avoidNodes[i], FALSE), avoidNodes, i + 1)

\* the inner loop of "exclude requested segments" over orig's adjacency list
RECURSIVE ExcludeAdj(_, _, _, _, _)
ExcludeAdj(g, adj, second, i, switchedEdges) ==
    IF i > Len(adj)
    THEN [g |-> g, switchedEdges |-> switchedEdges]
    ELSE IF g.edges[adj[i]].dest = second
         THEN ExcludeAdj(SetEdgeAvailable(g, adj[i], FALSE), adj, second, i + 1,
                         Append(switchedEdges, adj[i]))
         ELSE ExcludeAdj(g, adj, second, i + 1, switchedEdges)

\* "exclude requested segments": pairs with an unknown endpoint are skipped
RECURSIVE ExcludeSegments(_, _, _, _)
ExcludeSegments(g, avoidSegments, i, switchedEdges) ==
    IF i > Len(avoidSegments)
    THEN [g |-> g, switchedEdges |-> switchedEdges]
    ELSE LET pair == avoidSegments[i]
         IN IF findVertex(g, pair[1]) = 0 \/ findVertex(g, pair[2]) = 0
            THEN ExcludeSegments(g, avoidSegments, i + 1, switchedEdges)
            ELSE LET r == ExcludeAdj(g, g.idToVertexMap[pair[1]].adj, pair[2], 1,
                                     switchedEdges)
                 IN ExcludeSegments(r.g, avoidSegments, i + 1, r.switchedEdges)

RECURSIVE RestoreNodes(_, _, _)
RestoreNodes(g, avoidNodes, i) ==
    IF i > Len(avoidNodes)
    THEN g
    ELSE IF findVertex(g, avoidNodes[i]) = 0
         THEN RestoreNodes(g, avoidNodes, i + 1)
         ELSE RestoreNodes(SetVertexAvailable(g, avoidNodes[i], TRUE), avoidNodes, i + 1)

\* for (auto edge : list) edge->setAvailable(b)
RECURSIVE SetEdgesAvailable(_, _, _, _)
SetEdgesAvailable(g, list, i, b) ==
    IF i > Len(list)
    THEN g
    ELSE SetEdgesAvailable(SetEdgeAvailable(g, list[i], b), list, i + 1, b)

\* the restoration block that precedes each return
Restore(g, avoidNodes, switchedEdges) ==
    SetEdgesAvailable(RestoreNodes(g, avoidNodes, 1), switchedEdges, 1, TRUE)

\* results of a call: the graph it leaves, whether the process died, the output
Returned(g, o) == [g |-> g, crashed |-> FALSE, out |-> o]

\* std::runtime_error leaves the function: nothing after the throw runs
Thrown(g) == [g |-> g, crashed |-> FALSE, out |-> [kind |-> "throw"]]

(***************************************************************************)
(* Route composer.                                                         *)
(***************************************************************************)
\* marking with the flag inverted
MarkUsedRoadsAvailable(g, usedRoads) == SetEdgesAvailable(g, usedRoads, 1, TRUE)

\* for (auto edge : usedRoads) edge->setAvailable(false)
MarkUsedRoads(g, usedRoads) == SetEdgesAvailable(g, usedRoads, 1, FALSE)

\* the second search has returned r2: restore the marked edges and report
AltReport(r1, r2) ==
    {Returned(SetEdgesAvailable(r2.g, r1.path, 1, TRUE),
              IF r2.path # <<>>
              THEN [kind |-> "alt", best |-> r1.path, bestTotal |-> BackDist(r1.g, r1.path),
                    alt |-> r2.path, altTotal |-> BackDist(r2.g, r2.path)]
              ELSE [kind |-> "alt", best |-> r1.path, bestTotal |-> BackDist(r1.g, r1.path),
                    alt |-> <<>>])}

\* the first search has returned r1 (usedRoads is r1.path)
AltSearch(r1, origin, destination) ==
    IF r1.thrown
    THEN {Thrown(r1.g)}
    ELSE IF r1.path = <<>>
         THEN {Returned(r1.g, [kind |-> "alt", best |-> <<>>, alt |-> <<>>])}
         ELSE AltReport(r1, dijkstraDriving(MarkUsedRoads(r1.g, r1.path), origin, destination))

\* Graph::fastestDrivingPathWithAlt
fastestDrivingPathWithAlt(g, origin, destination) ==
    AltSearch(dijkstraDriving(g, origin, destination), origin, destination)

\* the branch without a stop, after its search: path.back() is evaluated on
\* the returned path also when it is empty, which is undefined behaviour;
\* either the process dies there or the function goes on with an arbitrary
\* total and reaches its restoration block
RestrictedDirect(r, avoidNodes, switchedEdges) ==
    IF r.thrown
    THEN {Thrown(r.g)}
    ELSE IF r.path = <<>>
         THEN {[g |-> r.g, crashed |-> TRUE, out |-> [kind |-> "ub"]],
               Returned(Restore(r.g, avoidNodes, switchedEdges), [kind |-> "ub"])}
         ELSE {Returned(Restore(r.g, avoidNodes, switchedEdges),
                        [kind |-> "route", path |-> r.path, total |-> BackDist(r.g, r.path)])}

\* "Step 2", after the search from the stop to the destination has returned r2
RestrictedSecondHalf(r1, r2, avoidNodes, switchedEdges) ==
    IF r2.thrown
    THEN {Thrown(r2.g)}
    ELSE IF r2.path = <<>>
         THEN {Returned(Restore(r2.g, avoidNodes, switchedEdges), [kind |-> "none"])}
         ELSE {Returned(Restore(r2.g, avoidNodes, switchedEdges),
                        [kind |-> "route", path |-> r1.path \o r2.path,
                         total |-> BackDist(r1.g, r1.path) + BackDist(r2.g, r2.path)])}

\* "Step 1" reporting an empty first leg as a route of no edges
RestrictedFirstHalfEmptyLeg(r1, stop, destination, avoidNodes, switchedEdges) ==
    IF r1.thrown
    THEN {Thrown(r1.g)}
    ELSE IF r1.path = <<>>
         THEN {Returned(Restore(r1.g, avoidNodes, switchedEdges),
                        [kind |-> "route", path |-> <<>>, total |-> 0])}
         ELSE RestrictedSecondHalf(r1, dijkstraDriving(r1.g, stop[1], destination),
                                   avoidNodes, switchedEdges)

\* "Step 1", after the search from the origin to the stop has returned r1
RestrictedFirstHalf(r1, stop, destination, avoidNodes, switchedEdges) ==
    IF r1.thrown
    THEN {Thrown(r1.g)}
    ELSE IF r1.path = <<>>
         THEN {Returned(Restore(r1.g, avoidNodes, switchedEdges), [kind |-> "none"])}
         ELSE RestrictedSecondHalf(r1, dijkstraDriving(r1.g, stop[1], destination),
                                   avoidNodes, switchedEdges)

\* the searches on the graph x.g that carries the exclusions
RestrictedSearch(x, origin, destination, avoidNodes, stop) ==
    IF stop = <<>>
    THEN RestrictedDirect(dijkstraDriving(x.g, origin, destination),
                          avoidNodes, x.switchedEdges)
    ELSE RestrictedFirstHalf(dijkstraDriving(x.g, origin, stop[1]), stop, destination,
                             avoidNodes, x.switchedEdges)

\* Graph::fastestRestrictedDrivingPath; stop is <<>> (nullopt) or <<id>>
fastestRestrictedDrivingPath(g, origin, destination, avoidNodes, avoidSegments, stop) ==
    RestrictedSearch(ExcludeSegments(ExcludeNodes(g, avoidNodes, 1), avoidSegments, 1, <<>>),
                     origin, destination, avoidNodes, stop)

(***************************************************************************)
(* Park-and-walk planner (StorageHandler::calculateEnvironmentalRoute).    *)
(***************************************************************************)
Tolerance == 2

\* the enumeration without the parking test
getAllVertices(g) == DOMAIN g.idToVertexMap

\* Graph::getAllParkingVertices: the vertices of the id index that have parking
getAllParkingVertices(g) == {v \in DOMAIN g.idToVertexMap : g.idToVertexMap[v].parkingSpace}

\* the orders in which unordered_map iteration can deliver a set of vertices
Orders(S) == {p \in [1..Cardinality(S) -> S] : \A v \in S : \E i \in DOMAIN p : p[i] = v}

RECURSIVE SumDriveTime(_, _, _)
SumDriveTime(g, path, i) ==
    IF i > Len(path) THEN 0 ELSE g.edges[path[i]].driveTime + SumDriveTime(g, path, i + 1)

RECURSIVE SumWalkTime(_, _, _)
SumWalkTime(g, path, i) ==
    IF i > Len(path) THEN 0 ELSE g.edges[path[i]].walkTime + SumWalkTime(g, path, i + 1)

\* the tuple pushed for a parking node with both legs
Candidate(d, w, parkId) ==
    [totalTime |-> SumDriveTime(w.g, d.path, 1) + SumWalkTime(w.g, w.path, 1),
     walkTime |-> SumWalkTime(w.g, w.path, 1),
     drivePath |-> d.path, walkPath |-> w.path, parkNode |-> parkId]

RECURSIVE CandidateLoop(_, _, _, _, _, _, _, _)
\* the partition into candidates (within the budget) and approxCandidates
CandidateAdd(g, c, parkingVertices, i, source, destination, maxWalkingTime, candidates, approxCandidates) ==
    IF c.walkTime <= maxWalkingTime
    THEN CandidateLoop(g, parkingVertices, i + 1, source, destination, maxWalkingTime,
                       Append(candidates, c), approxCandidates)
    ELSE CandidateLoop(g, parkingVertices, i + 1, source, destination, maxWalkingTime,
                       candidates, Append(approxCandidates, c))

\* after the walking search from the parking node has returned w
CandidateWalk(d, w, parkingVertices, i, source, destination, maxWalkingTime, candidates, approxCandidates) ==
    IF w.path = <<>>
    THEN CandidateLoop(w.g, parkingVertices, i + 1, source, destination, maxWalkingTime,
                       candidates, approxCandidates)
    ELSE CandidateAdd(w.g, Candidate(d, w, parkingVertices[i]), parkingVertices, i, source,
                      destination, maxWalkingTime, candidates, approxCandidates)

\* after the driving search to the parking node has returned d
CandidateDrive(d, parkingVertices, i, source, destination, maxWalkingTime, candidates, approxCandidates) ==
    IF d.thrown
    THEN [g |-> d.g, thrown |-> TRUE,
          candidates |-> candidates, approxCandidates |-> approxCandidates]
    ELSE IF d.path = <<>>
         THEN CandidateLoop(d.g, parkingVertices, i + 1, source, destination, maxWalkingTime,
                            candidates, approxCandidates)
         ELSE CandidateWalk(d, dijkstraWalking(d.g, parkingVertices[i], destination),
                            parkingVertices, i, source, destination, maxWalkingTime,
                            candidates, approxCandidates)

\* the loop over the parking vertices: both searches per candidate
CandidateLoop(g, parkingVertices, i, source, destination, maxWalkingTime, candidates, approxCandidates) ==
    IF i > Len(parkingVertices)
    THEN [g |-> g, thrown |-> FALSE,
          candidates |-> candidates, approxCandidates |-> approxCandidates]
    ELSE IF parkingVertices[i] = source \/ parkingVertices[i] = destination
         THEN CandidateLoop(g, parkingVertices, i + 1, source, destination, maxWalkingTime,
                            candidates, approxCandidates)
         ELSE CandidateDrive(dijkstraDriving(g, source, parkingVertices[i]),
                             parkingVertices, i, source, destination, maxWalkingTime,
                             candidates, approxCandidates)

\* min_element with the comparator reversed: the first maximum
MaxElement(candidates) ==
    candidates[CHOOSE i \in DOMAIN candidates :
                  /\ \A j \in DOMAIN candidates : ~(candidates[j].totalTime > candidates[i].totalTime)
                  /\ \A j \in 1..(i - 1) : candidates[i].totalTime > candidates[j].totalTime]

\* std::min_element with the comparator on totalTime: the first minimum
MinElement(candidates) ==
    candidates[CHOOSE i \in DOMAIN candidates :
                  /\ \A j \in DOMAIN candidates : ~(candidates[j].totalTime < candidates[i].totalTime)
                  /\ \A j \in 1..(i - 1) : candidates[i].totalTime < candidates[j].totalTime]

\* the comparator with both tests reversed
ApproxGreater(a, b) ==
    IF a.totalTime # b.totalTime THEN a.totalTime > b.totalTime ELSE a.walkTime > b.walkTime

\* the comparator handed to std::sort
ApproxLess(a, b) ==
    IF a.totalTime # b.totalTime THEN a.totalTime < b.totalTime ELSE a.walkTime < b.walkTime

\* std::sort: some arrangement in which no element precedes one that is less
Sorted(list) ==
    {[i \in DOMAIN list |-> list[p[i]]] : p \in
        {q \in Orders(DOMAIN list) :
            \A i, j \in DOMAIN list : i < j => ~ApproxLess(list[q[j]], list[q[i]])}}

\* the reporting loop: stops at the first candidate beyond the tolerance;
\* i is the loop position, the tag printed is i as well (int i = 1; ... i++)
RECURSIVE ReportLoop(_, _, _, _)
ReportLoop(approxCandidates, bestTime, i, reported) ==
    IF i > Len(approxCandidates)
    THEN reported
    ELSE IF approxCandidates[i].totalTime > bestTime + Tolerance
         THEN reported
         ELSE ReportLoop(approxCandidates, bestTime, i + 1,
                         Append(reported, [index |-> i, route |-> approxCandidates[i]]))

\* what is reported once the flags are restored
PlannerReport(r, restored) ==
    IF r.candidates # <<>>
    THEN {Returned(restored,
                   [kind |-> "exact", best |-> MinElement(r.candidates),
                    candidates |-> r.candidates,
                    approxCandidates |-> r.approxCandidates])}
    ELSE IF r.approxCandidates # <<>>
         THEN {Returned(restored,
                        [kind |-> "approx", candidates |-> <<>>,
                         reported |-> ReportLoop(sorted, sorted[1].totalTime, 1, <<>>),
                         approxCandidates |-> sorted]) :
               sorted \in Sorted(r.approxCandidates)}
         ELSE {Returned(restored, [kind |-> "noroute", candidates |-> <<>>,
                                   approxCandidates |-> <<>>])}

\* after the candidate loop has returned r: a throw leaves at once
PlannerFinish(r, avoidNodes, switchedEdges) ==
    IF r.thrown
    THEN {Thrown(r.g)}
    ELSE PlannerReport(r, Restore(r.g, avoidNodes, switchedEdges))

\* the candidate loop on the graph x.g that carries the exclusions
PlannerSearch(x, source, destination, maxWalkingTime, avoidNodes) ==
    UNION {PlannerFinish(CandidateLoop(x.g, parkingVertices, 1, source, destination,
                                       maxWalkingTime, <<>>, <<>>),
                         avoidNodes, x.switchedEdges) :
           parkingVertices \in Orders(getAllParkingVertices(x.g))}

\* StorageHandler::calculateEnvironmentalRoute
calculateEnvironmentalRoute(g, source, destination, maxWalkingTime, avoidNodes, avoidSegments) ==
    PlannerSearch(ExcludeSegments(ExcludeNodes(g, avoidNodes, 1), avoidSegments, 1, <<>>),
                  source, destination, maxWalkingTime, avoidNodes)

(***************************************************************************)
(* The city the route computations run on: the records loadLocations and   *)
(* loadRoads feed to addVertex and addBidirectionalEdge (by code).         *)
(***************************************************************************)
Locations ==
    << [id |-> 1, code |-> "A", parking |-> FALSE],
       [id |-> 2, code |-> "B", parking |-> TRUE],
       [id |-> 3, code |-> "C", parking |-> FALSE],
       [id |-> 4, code |-> "D", parking |-> TRUE] >>

Roads ==
    << [loc1 |-> "B", loc2 |-> "D", driving |-> INF, walking |-> 4],
       [loc1 |-> "B", loc2 |-> "D", driving |-> 3, walking |-> 2],
       [loc1 |-> "C", loc2 |-> "B", driving |-> 1, walking |-> 1],
       [loc1 |-> "D", loc2 |-> "C", driving |-> 1, walking |-> 3],
       [loc1 |-> "C", loc2 |-> "A", driving |-> 5, walking |-> 2],
       [loc1 |-> "B", loc2 |-> "A", driving |-> 5, walking |-> INF],
       [loc1 |-> "D", loc2 |-> "A", driving |-> 1, walking |-> 1],
       [loc1 |-> "A", loc2 |-> "C", driving |-> 2, walking |-> 2] >>

\* the number of road records read from the file
MaxRoads == 7

\* Graph::addBidirectionalEdge(const std::string&, ...)
addBidirectionalEdgeByCode(g, sourc, dest, w, d) ==
    IF findVertexByCode(g, sourc) = 0 \/ findVertexByCode(g, dest) = 0
    THEN [ret |-> FALSE, g |-> g]
    ELSE addBidirectionalEdge(g, findVertexByCode(g, sourc), findVertexByCode(g, dest), w, d)

\* StorageHandler::loadLocations over the first n records
RECURSIVE loadLocations(_, _)
loadLocations(g, n) ==
    IF n = 0
    THEN g
    ELSE addVertex(loadLocations(g, n - 1),
                   Locations[n].id, Locations[n].code, Locations[n].parking).g

\* StorageHandler::loadRoads over the first n records
RECURSIVE loadRoads(_, _)
loadRoads(g, n) ==
    IF n = 0
    THEN g
    ELSE addBidirectionalEdgeByCode(loadRoads(g, n - 1), Roads[n].loc1, Roads[n].loc2,
                                    Roads[n].walking, Roads[n].driving).g

Min(a, b) == IF a < b THEN a ELSE b

\* inputs of the route computations
Trips == {<<1, 3>>, <<1, 2>>, <<5, 3>>, <<1, 5>>}
AvoidNodeChoices == {<<>>, <<4>>, <<2, 5>>}
AvoidSegmentChoices == {<<>>, << <<1, 4>> >>}
StopChoices == {<<>>, <<4>>, <<5>>}
WalkBudgets == {0, 1, 3}

(***************************************************************************)
(* Route-computation actions.                                              *)
(***************************************************************************)
Finish(r) ==
    /\ SetGraph(r.g)
    /\ out' = r.out
    /\ crashed' = r.crashed

DijkstraDriving(origin, destination) ==
    /\ ~crashed
    /\ LET r == dijkstraDriving(CurrentGraph, origin, destination)
       IN Finish(IF r.thrown
                 THEN Thrown(r.g)
                 ELSE Returned(r.g, [kind |-> "path", path |-> r.path]))
    /\ call' = [op |-> "dijkstraDriving", origin |-> origin, destination |-> destination]

DijkstraWalking(origin, destination) ==
    /\ ~crashed
    /\ LET r == dijkstraWalking(CurrentGraph, origin, destination)
       IN Finish(Returned(r.g, [kind |-> "path", path |-> r.path]))
    /\ call' = [op |-> "dijkstraWalking", origin |-> origin, destination |-> destination]

FastestDrivingPathWithAlt(origin, destination) ==
    /\ ~crashed
    /\ \E r \in fastestDrivingPathWithAlt(CurrentGraph, origin, destination) : Finish(r)
    /\ call' = [op |-> "fastestDrivingPathWithAlt",
                origin |-> origin, destination |-> destination]

FastestRestrictedDrivingPath(origin, destination, avoidNodes, avoidSegments, stop) ==
    /\ ~crashed
    /\ \E r \in fastestRestrictedDrivingPath(CurrentGraph, origin, destination,
                                             avoidNodes, avoidSegments, stop) : Finish(r)
    /\ call' = [op |-> "fastestRestrictedDrivingPath",
                origin |-> origin, destination |-> destination,
                avoidNodes |-> avoidNodes, avoidSegments |-> avoidSegments, stop |-> stop]

CalculateEnvironmentalRoute(source, destination, maxWalkingTime, avoidNodes, avoidSegments) ==
    /\ ~crashed
    /\ \E r \in calculateEnvironmentalRoute(CurrentGraph, source, destination,
                                            maxWalkingTime, avoidNodes, avoidSegments) :
          Finish(r)
    /\ call' = [op |-> "calculateEnvironmentalRoute",
                origin |-> source, destination |-> destination,
                maxWalkingTime |-> maxWalkingTime,
                avoidNodes |-> avoidNodes, avoidSegments |-> avoidSegments]

InitRoute ==
    /\ \E n \in 0..Min(MaxRoads, Len(Roads)) :
          LET g == loadRoads(loadLocations(EmptyGraph, Len(Locations)), n)
          IN /\ idToVertexMap = g.idToVertexMap
             /\ codeToVertexMap = g.codeToVertexMap
             /\ edges = g.edges
    /\ call = [op |-> "idle"]
    /\ out = [kind |-> "idle"]
    /\ crashed = FALSE

NextRoute ==
    \/ \E t \in Trips : DijkstraDriving(t[1], t[2])
    \/ \E t \in Trips : DijkstraWalking(t[1], t[2])
    \/ \E t \in Trips : FastestDrivingPathWithAlt(t[1], t[2])
    \/ \E t \in Trips, an \in AvoidNodeChoices, as \in AvoidSegmentChoices, stop \in StopChoices :
          FastestRestrictedDrivingPath(t[1], t[2], an, as, stop)
    \/ \E t \in Trips, mw \in WalkBudgets, an \in AvoidNodeChoices, as \in AvoidSegmentChoices :
          CalculateEnvironmentalRoute(t[1], t[2], mw, an, as)

SpecRoute == InitRoute /\ [][NextRoute]_vars

(***************************************************************************)
(* Searches on a city from which vertices are removed.                     *)
(***************************************************************************)
CityIds == {Locations[i].id : i \in DOMAIN Locations}

StoreTrips == {t \in CityIds \X CityIds : t[1] # t[2]}

NextRemove ==
    \/ \E in \in CityIds : RemoveVertex(in)
    \/ \E t \in StoreTrips : DijkstraDriving(t[1], t[2])
    \/ \E t \in StoreTrips : DijkstraWalking(t[1], t[2])

SpecRemove == InitRoute /\ [][NextRemove]_vars

(***************************************************************************)
(* A second road file on the same locations, and the inputs of the route   *)
(* computations that carry exclusions.                                     *)
(***************************************************************************)
TownRoads ==
    << [loc1 |-> "B", loc2 |-> "A", driving |-> 5, walking |-> 1],
       [loc1 |-> "D", loc2 |-> "A", driving |-> 5, walking |-> 1],
       [loc1 |-> "B", loc2 |-> "C", driving |-> 4, walking |-> 1],
       [loc1 |-> "B", loc2 |-> "A", driving |-> 3, walking |-> 1],
       [loc1 |-> "B", loc2 |-> "D", driving |-> 1, walking |-> 1],
       [loc1 |-> "D", loc2 |-> "A", driving |-> 1, walking |-> 1] >>

\* StorageHandler::loadRoads over the first n records of the second file
RECURSIVE loadTownRoads(_, _)
loadTownRoads(g, n) ==
    IF n = 0
    THEN g
    ELSE addBidirectionalEdgeByCode(loadTownRoads(g, n - 1), TownRoads[n].loc1,
                                    TownRoads[n].loc2, TownRoads[n].walking,
                                    TownRoads[n].driving).g

AvoidTrips == {<<1, 3>>, <<1, 2>>, <<2, 3>>}
AvoidNodeLists == {<<>>, <<1>>, <<4>>, <<5, 4>>}
AvoidSegmentLists == {<<>>, << <<1, 4>> >>, << <<1, 4>>, <<5, 1>> >>}
WaypointChoices == {<<>>, <<3>>, <<4>>}
AvoidBudgets == {1, 3}

InitAvoid ==
    /\ \E g \in {loadRoads(loadLocations(EmptyGraph, Len(Locations)), n) :
                    n \in 0..Min(MaxRoads, Len(Roads))}
                \cup {loadTownRoads(loadLocations(EmptyGraph, Len(Locations)), Len(TownRoads))} :
          /\ idToVertexMap = g.idToVertexMap
          /\ codeToVertexMap = g.codeToVertexMap
          /\ edges = g.edges
    /\ call = [op |-> "idle"]
    /\ out = [kind |-> "idle"]
    /\ crashed = FALSE

NextAvoid ==
    \/ \E t \in AvoidTrips, an \in AvoidNodeLists, as \in AvoidSegmentLists,
          stop \in WaypointChoices :
          FastestRestrictedDrivingPath(t[1], t[2], an, as, stop)
    \/ \E t \in AvoidTrips, mw \in AvoidBudgets, an \in AvoidNodeLists,
          as \in AvoidSegmentLists :
          CalculateEnvironmentalRoute(t[1], t[2], mw, an, as)

SpecAvoid == InitAvoid /\ [][NextAvoid]_vars

(***************************************************************************)
(* Two restricted-route computations (no waypoint, no avoided segment) on  *)
(* the same graph, their steps interleaved: the flag write, the search and *)
(* the flag restore of each are the steps.  call.proc holds the arguments  *)
(* and the position of each computation, out.result what each reported.    *)
(***************************************************************************)
Procs == {1, 2}

\* the flag write: "exclude requested nodes"
StepExclude(g, p) == ExcludeNodes(g, p.avoidNodes, 1)

\* a search whose flags are those of its own exclusions whatever the graph holds
StepSearchIsolated(g, p) ==
    [dijkstraDriving(g, p.origin, p.destination) EXCEPT
        !.path = dijkstraDriving(
                    ExcludeNodes(
                       Graph([v \in DOMAIN g.idToVertexMap |->
                                 [g.idToVertexMap[v] EXCEPT !.available = TRUE]],
                             g.codeToVertexMap, g.edges),
                       p.avoidNodes, 1),
                    p.origin, p.destination).path]

\* the search: path = dijkstraDriving(origin, destination)
StepSearch(g, p) == dijkstraDriving(g, p.origin, p.destination)

\* the flag restore that precedes the return
StepRestore(g, p) == RestoreNodes(g, p.avoidNodes, 1)

\* what the search of computation p meets in the flags: a vertex excluded by
\* the other computation, or one of its own that the other has re-enabled
Overlap(g, p) ==
    IF \E v \in DOMAIN g.idToVertexMap :
          ~g.idToVertexMap[v].available /\ v \notin Range(p.avoidNodes)
    THEN "foreign"
    ELSE IF \E v \in Range(p.avoidNodes) \cap DOMAIN g.idToVertexMap :
               g.idToVertexMap[v].available
         THEN "clobbered"
         ELSE "none"

\* the line printed after the search; path.back() on an empty path is
\* undefined behaviour
SearchResult(r) ==
    IF r.path = <<>>
    THEN [kind |-> "ub"]
    ELSE [kind |-> "route", path |-> r.path, total |-> BackDist(r.g, r.path)]

ExcludeStep(i) ==
    /\ ~crashed
    /\ call.op = "interleaved"
    /\ call.proc[i].pos = "exclude"
    /\ SetGraph(StepExclude(CurrentGraph, call.proc[i]))
    /\ call' = [call EXCEPT !.proc[i].pos = "search"]
    /\ UNCHANGED <<out, crashed>>

\* the search has returned r
SearchDone(i, r) ==
    /\ SetGraph(r.g)
    /\ out' = [out EXCEPT !.result[i] = SearchResult(r)]
    /\ crashed' \in (IF r.path = <<>> THEN {TRUE, FALSE} ELSE {FALSE})

SearchStep(i) ==
    /\ ~crashed
    /\ call.op = "interleaved"
    /\ call.proc[i].pos = "search"
    /\ SearchDone(i, StepSearch(CurrentGraph, call.proc[i]))
    /\ call' = [call EXCEPT !.proc[i].pos = "restore",
                            !.proc[i].overlap = Overlap(CurrentGraph, call.proc[i])]

RestoreStep(i) ==
    /\ ~crashed
    /\ call.op = "interleaved"
    /\ call.proc[i].pos = "restore"
    /\ SetGraph(StepRestore(CurrentGraph, call.proc[i]))
    /\ call' = [call EXCEPT !.proc[i].pos = "done"]
    /\ UNCHANGED <<out, crashed>>

InterleavedDestinations == {2, 3}
InterleavedAvoidNodes == {<<>>, <<4>>}

InitInterleaved ==
    /\ \E g \in {loadTownRoads(loadLocations(EmptyGraph, Len(Locations)), Len(TownRoads))} :
          /\ idToVertexMap = g.idToVertexMap
          /\ codeToVertexMap = g.codeToVertexMap
          /\ edges = g.edges
    /\ \E d \in [Procs -> InterleavedDestinations], an \in [Procs -> InterleavedAvoidNodes] :
          call = [op |-> "interleaved",
                  proc |-> [i \in Procs |->
                               [origin |-> 1, destination |-> d[i], avoidNodes |-> an[i],
                                pos |-> "exclude", overlap |-> "none"]]]
    /\ out = [kind |-> "interleaved", result |-> [i \in Procs |-> [kind |-> "pending"]]]
    /\ crashed = FALSE

NextInterleaved ==
    \/ \E i \in Procs : ExcludeStep(i)
    \/ \E i \in Procs : SearchStep(i)
    \/ \E i \in Procs : RestoreStep(i)

SpecInterleaved == InitInterleaved /\ [][NextInterleaved]_vars

(***************************************************************************)
(* Batch dispatch (StorageHandler::callBatchFunction).                     *)
(***************************************************************************)
\* the value of Data::includeNode when the batch names no node to include
NoIncludeNode == -1

\* StorageHandler::callBatchFunction: an unrecognised mode falls through both
\* tests and the function returns without having called anything
callBatchFunction(g, data) ==
    IF data.mode = "driving"
    THEN IF data.avoidNodes = <<>> /\ data.avoidSegments = <<>>
            /\ data.includeNode = NoIncludeNode
         THEN fastestDrivingPathWithAlt(g, data.source, data.destination)
         ELSE fastestRestrictedDrivingPath(g, data.source, data.destination,
                                           data.avoidNodes, data.avoidSegments,
                                           IF data.includeNode = NoIncludeNode
                                           THEN <<>>
                                           ELSE <<data.includeNode>>)
    ELSE IF data.mode = "driving-walking"
         THEN calculateEnvironmentalRoute(g, data.source, data.destination,
                                          data.maxWalkTime, data.avoidNodes,
                                          data.avoidSegments)
         ELSE {Returned(g, [kind |-> "nothing"])}

CallBatchFunction(data) ==
    /\ ~crashed
    /\ \E r \in callBatchFunction(CurrentGraph, data) : Finish(r)
    /\ call' = [op |-> "callBatchFunction", mode |-> data.mode,
                origin |-> data.source, destination |-> data.destination]

\* the batches handed to callBatchFunction
BatchData ==
    [mode : {"driving", "driving-walking", "walking"},
     source : {1},
     destination : {3, 5},
     avoidNodes : {<<>>, <<4>>},
     avoidSegments : {<<>>},
     includeNode : {NoIncludeNode, 4},
     maxWalkTime : {1}]

NextBatch == \E data \in BatchData : CallBatchFunction(data)

SpecBatch == InitRoute /\ [][NextBatch]_vars

(***************************************************************************)
(* Searches on a graph whose availability flags are set by the caller      *)
(* (Vertex::setAvailable, Edge::setAvailable).                             *)
(***************************************************************************)
\* the vertices and the edges (addresses) whose flag the caller sets
FlagNodes == {2, 4}
FlagEdges == {6, 10, 14}

FlagTrips == {<<1, 2>>, <<1, 3>>, <<2, 1>>, <<3, 4>>, <<4, 1>>, <<1, 1>>}

VertexSetAvailable(v, b) ==
    /\ ~crashed
    /\ v \in DOMAIN idToVertexMap
    /\ SetGraph(SetVertexAvailable(CurrentGraph, v, b))
    /\ call' = [op |-> "setAvailable"]
    /\ out' = [kind |-> "idle"]
    /\ UNCHANGED crashed

EdgeSetAvailable(e, b) ==
    /\ ~crashed
    /\ e \in DOMAIN edges
    /\ SetGraph(SetEdgeAvailable(CurrentGraph, e, b))
    /\ call' = [op |-> "setAvailable"]
    /\ out' = [kind |-> "idle"]
    /\ UNCHANGED crashed

NextFlags ==
    \/ \E v \in FlagNodes, b \in BOOLEAN : VertexSetAvailable(v, b)
    \/ \E e \in FlagEdges, b \in BOOLEAN : EdgeSetAvailable(e, b)
    \/ \E t \in FlagTrips : DijkstraDriving(t[1], t[2])
    \/ \E t \in FlagTrips : DijkstraWalking(t[1], t[2])
    \/ CalculateEnvironmentalRoute(1, 3, 3, <<2>>, <<>>)

SpecFlags == InitAvoid /\ [][NextFlags]_vars

(***************************************************************************)
(* One search, iteration by iteration.  call holds the locals of the       *)
(* running dijkstraDriving / dijkstraWalking: the priority queue pq, the   *)
(* position (the main loop, the backward loop over the predecessor edges,  *)
(* returned), and the edge e and the vector path of the backward loop.     *)
(***************************************************************************)
\* a third road file: a self-loop, parallel roads and costs of zero
RingRoads ==
    << [loc1 |-> "A", loc2 |-> "A", driving |-> 0, walking |-> 0],
       [loc1 |-> "A", loc2 |-> "B", driving |-> 0, walking |-> 0],
       [loc1 |-> "A", loc2 |-> "B", driving |-> 0, walking |-> 0],
       [loc1 |-> "B", loc2 |-> "C", driving |-> 0, walking |-> 1],
       [loc1 |-> "C", loc2 |-> "A", driving |-> 1, walking |-> 0] >>

\* StorageHandler::loadRoads over the first n records of the third file
RECURSIVE loadRingRoads(_, _)
loadRingRoads(g, n) ==
    IF n = 0
    THEN g
    ELSE addBidirectionalEdgeByCode(loadRingRoads(g, n - 1), RingRoads[n].loc1,
                                    RingRoads[n].loc2, RingRoads[n].walking,
                                    RingRoads[n].driving).g

SearchKinds == {"driving", "walking"}

SearchTrips == CityIds \X CityIds

\* std::reverse
Reverse(s) == [i \in DOMAIN s |-> s[Len(s) + 1 - i]]

\* the relaxation loop of the running search
Relax(kind, g, pq, current) ==
    IF kind = "driving" THEN RelaxDriving(g, pq, current, 1) ELSE RelaxWalking(g, pq, current, 1)

\* the locals after the main loop is left: e = destVert->getPath()
LeaveLoop(c, g) ==
    [c EXCEPT !.pos = "back", !.pq = <<>>, !.e = g.idToVertexMap[c.destination].path]

\* the locals after one pass of the main loop that relaxed the edges of current
AfterRelax(c, r) ==
    IF r.pq = <<>> THEN LeaveLoop(c, r.g) ELSE [c EXCEPT !.pq = r.pq]

\* the initialisation loop, the lookups, setDist(0) and the first push
SearchBegin(kind, origin, destination) ==
    /\ ~crashed
    /\ call.pos \in {"idle", "returned"}
    /\ origin \in DOMAIN idToVertexMap
    /\ destination \in DOMAIN idToVertexMap
    /\ \E g \in {SetDist(InitSearch(CurrentGraph), origin, 0)} :
          /\ SetGraph(g)
          /\ call' = [op |-> "search", kind |-> kind, origin |-> origin,
                      destination |-> destination, pos |-> "loop",
                      pq |-> pqPush(g, <<>>, origin), e |-> NoEdge, path |-> <<>>]
    /\ out' = [kind |-> "pending"]
    /\ UNCHANGED crashed

\* the pass finds current already visited: continue
IterateSkip(pq1) ==
    /\ call' = IF pq1 = <<>> THEN LeaveLoop(call, CurrentGraph) ELSE [call EXCEPT !.pq = pq1]
    /\ UNCHANGED <<idToVertexMap, codeToVertexMap, edges>>

\* the pass has marked current visited (graph g1): break at the destination,
\* relax the edges of current otherwise
IterateProcess(current, pq1, g1) ==
    IF current = call.destination
    THEN /\ SetGraph(g1)
         /\ call' = LeaveLoop(call, g1)
    ELSE \E r \in {Relax(call.kind, g1, pq1, current)} :
            /\ SetGraph(r.g)
            /\ call' = AfterRelax(call, r)

\* one pass of while (!pq.empty()): pop; skip a visited vertex; mark; leave
\* at the destination; relax
SearchIterate ==
    /\ ~crashed
    /\ call.pos = "loop"
    /\ \E pq1 \in {pqPop(CurrentGraph, call.pq)} :
          IF idToVertexMap[call.pq[1]].visited
          THEN IterateSkip(pq1)
          ELSE IterateProcess(call.pq[1], pq1,
                              Graph([idToVertexMap EXCEPT ![call.pq[1]].visited = TRUE],
                                    codeToVertexMap, edges))
    /\ UNCHANGED <<out, crashed>>

\* one pass of for (e = destVert->getPath(); e != nullptr; e = e->getOrigin()->getPath()),
\* or, at e == nullptr, the reverse and the return
SearchBack ==
    /\ ~crashed
    /\ call.pos = "back"
    /\ Len(call.path) <= Cardinality(DOMAIN edges)
    /\ IF call.e = NoEdge
       THEN /\ call' = [call EXCEPT !.pos = "returned"]
            /\ out' = [kind |-> "path", path |-> Reverse(call.path)]
       ELSE /\ call' = [call EXCEPT !.path = Append(@, call.e),
                                    !.e = idToVertexMap[edges[call.e].origin].path]
            /\ UNCHANGED out
    /\ UNCHANGED <<idToVertexMap, codeToVertexMap, edges, crashed>>

InitSearchSteps ==
    /\ \E g \in {loadRoads(loadLocations(EmptyGraph, Len(Locations)), Min(MaxRoads, Len(Roads))),
                 loadTownRoads(loadLocations(EmptyGraph, Len(Locations)), Len(TownRoads)),
                 loadRingRoads(loadLocations(EmptyGraph, Len(Locations)), Len(RingRoads))} :
          /\ idToVertexMap = g.idToVertexMap
          /\ codeToVertexMap = g.codeToVertexMap
          /\ edges = g.edges
    /\ call = [op |-> "search", kind |-> "driving", origin |-> 0, destination |-> 0,
               pos |-> "idle", pq |-> <<>>, e |-> NoEdge, path |-> <<>>]
    /\ out = [kind |-> "idle"]
    /\ crashed = FALSE

NextSearchSteps ==
    \/ \E kind \in SearchKinds, t \in SearchTrips : SearchBegin(kind, t[1], t[2])
    \/ SearchIterate
    \/ SearchBack

SpecSearchSteps == InitSearchSteps /\ [][NextSearchSteps]_vars

\* a search that has begun runs on: nothing suspends or cancels it
SpecSearchRuns ==
    /\ InitSearchSteps
    /\ [][NextSearchSteps]_vars
    /\ WF_vars(SearchIterate)
    /\ WF_vars(SearchBack)

(***************************************************************************)
(* The searches and the two route composers without exclusions, between    *)
(* every pair of locations (a location and itself included), on the city   *)
(* and on the town.                                                        *)
(***************************************************************************)
WaypointTrips == {<<1, 3>>, <<3, 1>>, <<2, 2>>}

Waypoints == {<<v>> : v \in CityIds}

NextCompose ==
    \/ \E t \in SearchTrips : DijkstraDriving(t[1], t[2])
    \/ \E t \in SearchTrips : DijkstraWalking(t[1], t[2])
    \/ \E t \in SearchTrips : FastestDrivingPathWithAlt(t[1], t[2])
    \/ \E t \in WaypointTrips, stop \in Waypoints :
          FastestRestrictedDrivingPath(t[1], t[2], <<>>, <<>>, stop)

SpecCompose == InitAvoid /\ [][NextCompose]_vars

(***************************************************************************)
(* Graph-store properties (checked under SpecStore).                       *)
(***************************************************************************)
ListedEdges == UNION {Range(idToVertexMap[v].adj) \cup Range(idToVertexMap[v].incoming) :
                      v \in DOMAIN idToVertexMap}

C6_IndicesInSync ==
    /\ \A in \in DOMAIN idToVertexMap :
          findVertexByCode(CurrentGraph, idToVertexMap[in].code) = in
    /\ \A c \in DOMAIN codeToVertexMap :
          /\ codeToVertexMap[c] \in DOMAIN idToVertexMap
          /\ idToVertexMap[codeToVertexMap[c]].code = c

\* C7: addVertex with an id that is already present returns false and leaves
\* the id index, the code index and all edges exactly as they were, whatever
\* code the rejected call carries.
C7_DuplicateIdRejected ==
    [][\A in \in StoreIds, code \in Codes :
          (in \in DOMAIN idToVertexMap /\ AddVertex(in, code, FALSE))
              => /\ out'.ret = FALSE
                 /\ idToVertexMap' = idToVertexMap
                 /\ codeToVertexMap' = codeToVertexMap
                 /\ edges' = edges]_vars

\* a rejected addVertex on a graph that holds a vertex and an edge
C7_Witness ==
    /\ call.op = "addVertex"
    /\ out.ret = FALSE
    /\ edges # EmptyMap
    /\ Cardinality(DOMAIN idToVertexMap) = 2

(***************************************************************************)
(* Route-computation properties (checked under SpecRoute).                 *)
(***************************************************************************)
\* the isAvailable flag of every vertex and of every edge
Flags == <<[v \in DOMAIN idToVertexMap |-> idToVertexMap[v].available],
           [e \in DOMAIN edges |-> edges[e].available]>>

ComposerOps == {"fastestDrivingPathWithAlt", "fastestRestrictedDrivingPath",
                "calculateEnvironmentalRoute"}

\* C1: after any call to fastestDrivingPathWithAlt, fastestRestrictedDrivingPath
\* or calculateEnvironmentalRoute that the process survives, every vertex and
\* edge isAvailable flag equals its value before the call.
C1_FlagsRestored ==
    [][(call'.op \in ComposerOps /\ ~crashed') => Flags' = Flags]_vars

\* C2: a restricted or multimodal call with a non-empty avoid list whose inner
\* drive-time search throws (absent origin, destination or waypoint) leaves
\* every isAvailable flag as it was before the call.
C2_FlagsRestoredOnThrow ==
    [][(/\ call'.op \in {"fastestRestrictedDrivingPath", "calculateEnvironmentalRoute"}
        /\ out'.kind = "throw"
        /\ (call'.avoidNodes # <<>> \/ call'.avoidSegments # <<>>))
          => Flags' = Flags]_vars

\* C3: a restricted call without waypoint whose search finds no path (both
\* endpoints present) completes normally with the no-route result, without
\* reading an element of the empty path, and with all flags as before.
C3_NoRouteCompletes ==
    [][(/\ call'.op = "fastestRestrictedDrivingPath"
        /\ call'.stop = <<>>
        /\ out'.kind \notin {"route", "throw"})
          => /\ out'.kind = "none"
             /\ ~crashed'
             /\ Flags' = Flags]_vars

\* an edge the drive-time search may use
UsableDrive(e) ==
    /\ edges[e].driveTime # INF
    /\ edges[e].available
    /\ idToVertexMap[edges[e].dest].available

SetMin(S) == CHOOSE x \in S : \A y \in S : x <= y

\* drive-time distances from origin by k rounds of relaxation over all edges
RECURSIVE DriveDistances(_, _)
DriveDistances(origin, k) ==
    IF k = 0
    THEN [v \in DOMAIN idToVertexMap |-> IF v = origin THEN 0 ELSE INF]
    ELSE LET D == DriveDistances(origin, k - 1)
         IN [v \in DOMAIN idToVertexMap |->
                SetMin({D[v]} \cup {D[edges[e].origin] + edges[e].driveTime :
                                    e \in {x \in DOMAIN edges :
                                              /\ UsableDrive(x)
                                              /\ edges[x].dest = v
                                              /\ D[edges[x].origin] < INF}})]

\* the least drive-time cost of a path from origin to destination
ShortestDrive(origin, destination) ==
    DriveDistances(origin, Cardinality(DOMAIN idToVertexMap))[destination]

\* C4: for a destination reachable from a different origin, the path returned
\* by dijkstraDriving is not empty, the destination's distance field equals the
\* sum of the drive times of its edges, and that total is at most the cost of
\* every origin-to-destination path under the same exclusions.
C4_ShortestDrivePath ==
    (/\ call.op = "dijkstraDriving"
     /\ out.kind = "path"
     /\ call.origin # call.destination
     /\ ShortestDrive(call.origin, call.destination) < INF)
       => /\ out.path # <<>>
          /\ idToVertexMap[call.destination].dist = SumDriveTime(CurrentGraph, out.path, 1)
          /\ idToVertexMap[call.destination].dist
                <= ShortestDrive(call.origin, call.destination)

\* C8: whenever fastestDrivingPathWithAlt finds a primary route, the alternate
\* route is none or an edge sequence different from the primary one.
C8_AlternateDiffers ==
    (call.op = "fastestDrivingPathWithAlt" /\ out.kind = "alt" /\ out.best # <<>>)
       => (out.alt = <<>> \/ out.alt # out.best)

\* a primary and an alternate route were both found
C8_Witness ==
    /\ call.op = "fastestDrivingPathWithAlt"
    /\ out.kind = "alt"
    /\ out.best # <<>>
    /\ out.alt # <<>>
    /\ ~crashed

\* the candidates with both legs that a finished planner call found
BothLegs == Range(out.candidates) \cup Range(out.approxCandidates)

WithinBudget == {c \in BothLegs : c.walkTime <= call.maxWalkingTime}

OverBudget == {c \in BothLegs : c.walkTime > call.maxWalkingTime}

PlannerReturned ==
    /\ call.op = "calculateEnvironmentalRoute"
    /\ out.kind \in {"exact", "approx", "noroute"}

\* C9: whenever some candidate with both legs has a walk time within
\* maxWalkingTime, calculateEnvironmentalRoute reports a single route, whose
\* candidate is within the budget and has the least total among the
\* within-budget candidates, also when an over-budget total is smaller.
C9_BestWithinBudget ==
    (PlannerReturned /\ WithinBudget # {})
       => /\ out.kind = "exact"
          /\ out.best \in WithinBudget
          /\ \A c \in WithinBudget : out.best.totalTime <= c.totalTime

\* a within-budget route was reported although an over-budget candidate has
\* a smaller total
C9_Witness ==
    /\ PlannerReturned
    /\ out.kind = "exact"
    /\ \E c \in OverBudget : c.totalTime < out.best.totalTime
    /\ ~crashed

\* (total, walkTime) of a precedes or equals that of b
ApproxLeq(a, b) ==
    \/ a.totalTime < b.totalTime
    \/ (a.totalTime = b.totalTime /\ a.walkTime <= b.walkTime)

\* C10: when no candidate is within the budget and some over-budget candidate
\* has both legs, the approximate alternatives reported are exactly the
\* over-budget candidates whose total is at most the least over-budget total
\* plus 2, in ascending (total, walkTime) order, tagged 1, 2, ...
C10_ApproximateAlternatives ==
    (PlannerReturned /\ WithinBudget = {} /\ OverBudget # {})
       => /\ out.kind = "approx"
          /\ {out.reported[i].route : i \in DOMAIN out.reported} =
                {c \in OverBudget :
                    c.totalTime <= SetMin({x.totalTime : x \in OverBudget}) + 2}
          /\ \A i, j \in DOMAIN out.reported :
                /\ i < j => ApproxLeq(out.reported[i].route, out.reported[j].route)
                /\ i # j => out.reported[i].route # out.reported[j].route
          /\ \A i \in DOMAIN out.reported : out.reported[i].index = i

\* two approximate alternatives with different totals were reported
C10_Witness ==
    /\ PlannerReturned
    /\ out.kind = "approx"
    /\ Len(out.reported) = 2
    /\ out.reported[1].route.totalTime < out.reported[2].route.totalTime
    /\ ~crashed

\* an over-budget candidate beyond the tolerance was left out
C10_CutReached ==
    /\ PlannerReturned
    /\ out.kind = "approx"
    /\ Len(out.reported) < Len(out.approxCandidates)

(***************************************************************************)
(* Searches after a vertex removal (checked under SpecRemove).             *)
(***************************************************************************)
\* the live edges with an end at v
IncidentEdges(v) == {e \in DOMAIN edges : edges[e].origin = v \/ edges[e].dest = v}

\* an edge the walk-time search may use
UsableWalk(e) == edges[e].walkTime # INF

\* the vertices reached from the set S along edges of E
RECURSIVE Closure(_, _)
Closure(S, E) ==
    IF \E e \in E : edges[e].origin \in S /\ edges[e].dest \notin S
    THEN Closure(S \cup {edges[e].dest : e \in {x \in E : edges[x].origin \in S}}, E)
    ELSE S

\* path is a chain of live edges from origin to destination
IsChain(path, origin, destination) ==
    /\ \A i \in DOMAIN path :
          /\ path[i] \in DOMAIN edges
          /\ edges[path[i]].origin \in DOMAIN idToVertexMap
          /\ edges[path[i]].dest \in DOMAIN idToVertexMap
    /\ edges[path[1]].origin = origin
    /\ edges[path[Len(path)]].dest = destination
    /\ \A i \in 1..(Len(path) - 1) : edges[path[i]].dest = edges[path[i + 1]].origin

\* a search between two vertices of the graph has returned
SearchReturned ==
    /\ call.op \in {"dijkstraDriving", "dijkstraWalking"}
    /\ out.kind = "path"
    /\ call.origin \in DOMAIN idToVertexMap
    /\ call.destination \in DOMAIN idToVertexMap

\* the edges the search of the last call may use
SearchEdges ==
    IF call.op = "dijkstraDriving"
    THEN {e \in DOMAIN edges : UsableDrive(e)}
    ELSE {e \in DOMAIN edges : UsableWalk(e)}

PathNodes(path) ==
    {edges[path[i]].origin : i \in DOMAIN path} \cup {edges[path[i]].dest : i \in DOMAIN path}

RestrictedRoute ==
    /\ call.op = "fastestRestrictedDrivingPath"
    /\ out.kind = "route"

\* C12: a route reported by fastestRestrictedDrivingPath passes no node of
\* avoidNodes (origin, waypoint and destination included) and uses no edge
\* from a to b for a listed avoid segment (a, b).
C12_RouteAvoidsExclusions ==
    RestrictedRoute
       => /\ PathNodes(out.path) \cap Range(call.avoidNodes) = {}
          /\ \A i \in DOMAIN out.path :
                <<edges[out.path[i]].origin, edges[out.path[i]].dest>>
                   \notin Range(call.avoidSegments)

\* C13: with a waypoint and both legs found, the reported route is a chain of
\* edges from the origin to the destination that passes the waypoint, and the
\* reported total (first leg's distance plus second leg's distance) equals
\* the sum of the drive times of the edges of the route.
C13_WaypointRouteTotal ==
    (RestrictedRoute /\ call.stop # <<>>)
       => /\ IsChain(out.path, call.origin, call.destination)
          /\ \E i \in DOMAIN out.path : edges[out.path[i]].dest = call.stop[1]
          /\ out.total = SumDriveTime(CurrentGraph, out.path, 1)

(***************************************************************************)
(* Lookup failures of the route computations (checked under SpecRoute).    *)
(***************************************************************************)
RouteOps == {"dijkstraDriving", "dijkstraWalking"} \cup ComposerOps

\* C14: every route computation called with an origin or a destination that
\* is absent from the graph signals a failure (the exception of the
\* drive-time search), never an ordinary empty or no-route result.
C14_AbsentEndpointFails ==
    (/\ call.op \in RouteOps
     /\ ~crashed
     /\ (call.origin \notin DOMAIN idToVertexMap
            \/ call.destination \notin DOMAIN idToVertexMap))
       => out.kind = "throw"

\* the entries of an avoid list that name vertices of the graph
KnownNodes(avoidNodes) ==
    SelectSeq(avoidNodes, LAMBDA n : n \in DOMAIN idToVertexMap)

KnownSegments(avoidSegments) ==
    SelectSeq(avoidSegments,
              LAMBDA p : p[1] \in DOMAIN idToVertexMap /\ p[2] \in DOMAIN idToVertexMap)

\* the outcomes of the call of this step when the unknown entries are left out
OutcomesWithoutUnknown ==
    IF call'.op = "fastestRestrictedDrivingPath"
    THEN fastestRestrictedDrivingPath(CurrentGraph, call'.origin, call'.destination,
                                      KnownNodes(call'.avoidNodes),
                                      KnownSegments(call'.avoidSegments), call'.stop)
    ELSE calculateEnvironmentalRoute(CurrentGraph, call'.origin, call'.destination,
                                     call'.maxWalkingTime, KnownNodes(call'.avoidNodes),
                                     KnownSegments(call'.avoidSegments))

Appended(before, after) ==
    IF Len(after) >= Len(before) /\ SubSeq(after, 1, Len(before)) = before
    THEN SubSeq(after, Len(before) + 1, Len(after))
    ELSE <<-1>>

\* this step created exactly the edge e from s to d with walk time 1 and
\* drive time 2 and left everything else as it was
AddedOneEdge(s, d, e) ==
    /\ e \notin DOMAIN edges
    /\ DOMAIN edges' = DOMAIN edges \cup {e}
    /\ \A x \in DOMAIN edges : edges'[x] = edges[x]
    /\ edges'[e] = [origin |-> s, dest |-> d, walkTime |-> 1, driveTime |-> 2,
                    available |-> TRUE, reverse |-> NoEdge]
    /\ DOMAIN idToVertexMap' = DOMAIN idToVertexMap
    /\ \A v \in DOMAIN idToVertexMap :
          /\ Appended(idToVertexMap[v].adj, idToVertexMap'[v].adj)
                = IF v = s THEN <<e>> ELSE <<>>
          /\ Appended(idToVertexMap[v].incoming, idToVertexMap'[v].incoming)
                = IF v = d THEN <<e>> ELSE <<>>

EdgesBetween(s, d) == {e \in DOMAIN edges : edges[e].origin = s /\ edges[e].dest = d}

\* list without the entries that are in R, order kept
Without(list, R) == SelectSeq(list, LAMBDA e : e \notin R)

\* C17: removeEdge(src, dst) frees every edge from src to dst and erases them
\* from src's outgoing and dst's incoming list, returning true; it returns
\* false and changes nothing when src is absent or has no edge to dst; all
\* other edges, those from dst to src included, stay where they were.
C17_RemoveEdgeContract ==
    [][\A s \in StoreIds, d \in StoreIds :
          RemoveEdge(s, d)
             => /\ out'.ret = (s \in DOMAIN idToVertexMap /\ EdgesBetween(s, d) # {})
                /\ DOMAIN edges' = DOMAIN edges \ EdgesBetween(s, d)
                /\ \A e \in DOMAIN edges' : edges'[e] = edges[e]
                /\ DOMAIN idToVertexMap' = DOMAIN idToVertexMap
                /\ \A v \in DOMAIN idToVertexMap :
                      /\ idToVertexMap'[v].adj
                            = Without(idToVertexMap[v].adj, EdgesBetween(s, d))
                      /\ idToVertexMap'[v].incoming
                            = Without(idToVertexMap[v].incoming, EdgesBetween(s, d))
                /\ ~out'.ret => UNCHANGED <<idToVertexMap, codeToVertexMap, edges>>]_vars

\* removeEdge returned true and the edge of the opposite direction, created
\* by the same addBidirectionalEdge, is still in both of its lists
C17_Witness ==
    /\ call.op = "removeEdge"
    /\ out.ret
    /\ \E e \in DOMAIN edges :
          /\ edges[e].reverse # NoEdge
          /\ edges[e].reverse \notin DOMAIN edges
          /\ e \in Range(idToVertexMap[edges[e].origin].adj)
          /\ e \in Range(idToVertexMap[edges[e].dest].incoming)

(***************************************************************************)
(* Interleaved route computations (checked under SpecInterleaved).         *)
(***************************************************************************)
\* the graph with every vertex and edge available, as before any computation
AllAvailable ==
    Graph([v \in DOMAIN idToVertexMap |-> [idToVertexMap[v] EXCEPT !.available = TRUE]],
          codeToVertexMap,
          [e \in DOMAIN edges |-> [edges[e] EXCEPT !.available = TRUE]])

\* what computation p reports when it runs alone
AloneResults(p) ==
    {r.out : r \in fastestRestrictedDrivingPath(AllAvailable, p.origin, p.destination,
                                                p.avoidNodes, <<>>, <<>>)}

\* computation i has returned after a search that met the other's flags
Disturbed(i) ==
    /\ call.op = "interleaved"
    /\ call.proc[i].pos = "done"
    /\ call.proc[i].overlap # "none"
    /\ ~crashed

\* C18: two route computations from A to C on the town, one or both avoiding
\* node D, with their steps interleaved: a computation whose search ran while
\* the other's exclusion was set, or after the other's restore re-enabled the
\* node it avoids, reports a route different from the one it reports alone
\* (and such interleavings exist).
C18_InterleavingChangesResult ==
    \A i \in Procs :
       (Disturbed(i) /\ call.proc[i].destination = 3)
          => out.result[i] \notin AloneResults(call.proc[i])

\* computation 1 met the exclusion of computation 2 in its search, and
\* computation 2 searched after computation 1 had re-enabled the node both avoid
C18_Witness ==
    \/ /\ Disturbed(1)
       /\ call.proc[1].overlap = "foreign"
       /\ call.proc[1].destination = 3
       /\ call.proc[2].pos = "done"
       /\ out.result[2] \in AloneResults(call.proc[2])
    \/ /\ Disturbed(2)
       /\ call.proc[2].overlap = "clobbered"
       /\ call.proc[2].destination = 3
       /\ 4 \in PathNodes(out.result[2].path)

(***************************************************************************)
(* Legs of the park-and-walk routes (checked under SpecRoute).             *)
(***************************************************************************)
\* the candidates a finished planner call reported
ReportedRoutes ==
    IF out.kind = "exact"
    THEN {out.best}
    ELSE IF out.kind = "approx"
         THEN {out.reported[i].route : i \in DOMAIN out.reported}
         ELSE {}

\* the edges the drive leg may use during the call, exclusions applied
DriveEdgesOfCall ==
    {e \in DOMAIN edges :
        /\ UsableDrive(e)
        /\ edges[e].dest \notin Range(call.avoidNodes)
        /\ <<edges[e].origin, edges[e].dest>> \notin Range(call.avoidSegments)}

\* the parking vertices with a drive leg from the origin and a walk leg to
\* the destination
ParkingWithBothLegs ==
    {p \in DOMAIN idToVertexMap :
        /\ idToVertexMap[p].parkingSpace
        /\ p \notin {call.origin, call.destination}
        /\ p \in Closure({call.origin}, DriveEdgesOfCall)
        /\ call.destination \in Closure({p}, {e \in DOMAIN edges : UsableWalk(e)})}

\* C19: every route reported by calculateEnvironmentalRoute parks at a vertex
\* that has the parking flag and is neither origin nor destination, reached
\* by a non-empty drive leg from the origin and left by a non-empty walk leg
\* to the destination, with total = drive time of the one + walk time of the
\* other; no route is reported exactly when no parking vertex has both legs.
C19_ParkingLegs ==
    PlannerReturned
       => /\ \A c \in ReportedRoutes :
                /\ idToVertexMap[c.parkNode].parkingSpace
                /\ c.parkNode \notin {call.origin, call.destination}
                /\ c.drivePath # <<>>
                /\ IsChain(c.drivePath, call.origin, c.parkNode)
                /\ c.walkPath # <<>>
                /\ IsChain(c.walkPath, c.parkNode, call.destination)
                /\ c.totalTime = SumDriveTime(CurrentGraph, c.drivePath, 1)
                                    + SumWalkTime(CurrentGraph, c.walkPath, 1)
          /\ (out.kind = "noroute") <=> (ParkingWithBothLegs = {})
          /\ (out.kind # "noroute") => ReportedRoutes # {}

\* a route under an exclusion was reported whose drive leg has several edges
\* while another parking vertex has no pair of legs
C19_Witness ==
    /\ PlannerReturned
    /\ out.kind = "exact"
    /\ call.avoidNodes # <<>>
    /\ Len(out.best.drivePath) >= 2
    /\ Cardinality(ParkingWithBothLegs) = 1
    /\ ~crashed

(***************************************************************************)
(* Batch dispatch (checked under SpecBatch).                               *)
(***************************************************************************)
\* C20: callBatchFunction raises a runtime error when data.mode is neither
\* "driving" nor "driving-walking", instead of returning normally without
\* running any route computation.
C20_UnknownModeRaises ==
    (/\ call.op = "callBatchFunction"
     /\ call.mode \notin {"driving", "driving-walking"})
       => out.kind = "throw"


(***************************************************************************)
(* Searches under caller-set flags (checked under SpecFlags).              *)
(***************************************************************************)
\* C21: every edge of a path returned by dijkstraDriving is available, has a
\* drive time that is not the blocked value and ends at an available vertex;
\* a destination that no chain of such edges reaches from the origin gets
\* the empty path.
C21_DrivingRespectsExclusions ==
    (call.op = "dijkstraDriving" /\ out.kind = "path")
       => /\ \A i \in DOMAIN out.path :
                /\ edges[out.path[i]].available
                /\ edges[out.path[i]].driveTime # INF
                /\ idToVertexMap[edges[out.path[i]].dest].available
          /\ call.destination \notin Closure({call.origin}, {e \in DOMAIN edges : UsableDrive(e)})
                => out.path = <<>>

\* a drive-time search found no path to a destination that roads reach, the
\* usable ones do not, while its road from the origin is merely unavailable
C21_Witness ==
    /\ call.op = "dijkstraDriving"
    /\ out.kind = "path"
    /\ out.path = <<>>
    /\ call.origin # call.destination
    /\ call.destination \in Closure({call.origin}, DOMAIN edges)
    /\ \E e \in DOMAIN edges : ~edges[e].available /\ edges[e].driveTime # INF
    /\ \E v \in DOMAIN idToVertexMap : ~idToVertexMap[v].available
    /\ ~crashed

\* a drive-time search returned a path of several edges around an
\* unavailable edge and an unavailable vertex
C21_WitnessDetour ==
    /\ call.op = "dijkstraDriving"
    /\ out.kind = "path"
    /\ Len(out.path) >= 2
    /\ \E e \in DOMAIN edges : ~edges[e].available /\ edges[e].origin = call.origin
    /\ \E v \in DOMAIN idToVertexMap : ~idToVertexMap[v].available

C22_WitnessSearch ==
    /\ call.op = "dijkstraWalking"
    /\ \E i \in DOMAIN out.path :
          /\ ~edges[out.path[i]].available
          /\ ~idToVertexMap[edges[out.path[i]].dest].available

\* the vertices a path enters, in order
Entered(path) == [i \in DOMAIN path |-> edges[path[i]].dest]

\* C24: a non-empty path returned by dijkstraDriving or dijkstraWalking starts
\* at the origin, ends at the destination, each edge starts where the
\* previous one ends, and no vertex occurs twice (the origin is never
\* entered, no vertex is entered twice); the path is empty exactly when the
\* destination's predecessor is none when the search ends.
C24_PathIsSimpleChain ==
    SearchReturned
       => /\ out.path # <<>>
                => /\ IsChain(out.path, call.origin, call.destination)
                   /\ \A i \in DOMAIN out.path : Entered(out.path)[i] # call.origin
                   /\ \A i, j \in DOMAIN out.path :
                         i # j => Entered(out.path)[i] # Entered(out.path)[j]
          /\ (out.path = <<>>) <=> (idToVertexMap[call.destination].path = NoEdge)
          /\ out.path # <<>> => out.path[Len(out.path)] = idToVertexMap[call.destination].path

\* a search under cleared flags returned a path of three edges
C24_Witness ==
    /\ SearchReturned
    /\ Len(out.path) >= 3
    /\ \E e \in DOMAIN edges : ~edges[e].available
    /\ ~crashed

\* a search from a vertex to itself returned the empty path
C24_WitnessSame ==
    /\ SearchReturned
    /\ call.origin = call.destination
    /\ out.path = <<>>
    /\ idToVertexMap[call.origin].visited

(***************************************************************************)
(* The running search (checked under SpecSearchSteps and SpecSearchRuns).  *)
(***************************************************************************)
\* the queued vertices that are not yet visited
QueuedUnvisited == {v \in Range(call.pq) : ~idToVertexMap[v].visited}

\* C23: whenever the main loop is about to take the top of the queue and that
\* vertex is not yet visited (it will be processed), its distance is the
\* least among the unvisited queued vertices; and from one pass of the loop
\* to the next the distance and the predecessor of a visited vertex stay.
C23_PopsMinimumAndSettles ==
    /\ []((call.pos = "loop" /\ call.pq[1] \in QueuedUnvisited)
             => \A v \in QueuedUnvisited :
                   idToVertexMap[call.pq[1]].dist <= idToVertexMap[v].dist)
    /\ [][(call.pos = "loop" /\ call'.pos # "loop" => call'.pos = "back")
             => \A v \in DOMAIN idToVertexMap :
                   (call.pos = "loop" /\ idToVertexMap[v].visited)
                      => /\ idToVertexMap'[v].dist = idToVertexMap[v].dist
                         /\ idToVertexMap'[v].path = idToVertexMap[v].path]_vars

\* the first half of C23 alone: the processed vertex is a minimum of the queue
C23_PopsMinimum ==
    (call.pos = "loop" /\ call.pq[1] \in QueuedUnvisited)
       => \A v \in QueuedUnvisited : idToVertexMap[call.pq[1]].dist <= idToVertexMap[v].dist

\* the second half of C23 alone: a visited vertex keeps distance and predecessor
C23_VisitedSettled ==
    [][\A v \in DOMAIN idToVertexMap :
          (call.pos = "loop" /\ idToVertexMap[v].visited)
             => /\ idToVertexMap'[v].dist = idToVertexMap[v].dist
                /\ idToVertexMap'[v].path = idToVertexMap[v].path]_vars

\* C25: every search that has begun returns: the main loop ends (queue empty
\* or destination popped) and the backward loop over the predecessor edges
\* reaches a vertex without predecessor, on graphs with zero costs,
\* self-loops and parallel roads as well.
C25_SearchReturns ==
    (call.pos \in {"loop", "back"}) ~> (call.pos = "returned")

\* a search on the graph with the self-loop and the zero costs has returned a
\* path of edges of cost zero, having skipped a queued vertex already visited
C25_Witness ==
    /\ call.pos = "returned"
    /\ \E e \in DOMAIN edges : edges[e].origin = edges[e].dest
    /\ Len(out.path) >= 2
    /\ \A i \in DOMAIN out.path : edges[out.path[i]].driveTime = 0
    /\ ~crashed

(***************************************************************************)
(* Edge lists and reverse references (checked under SpecStore).            *)
(***************************************************************************)
\* C26: after any sequence of graph-store operations, the reverse reference
\* of every live edge is none or refers to a live edge that runs between the
\* same two vertices in the opposite direction and refers back.
C26_ReverseReferencesLive ==
    \A e \in DOMAIN edges :
       edges[e].reverse # NoEdge
          => /\ edges[e].reverse \in DOMAIN edges
             /\ edges[edges[e].reverse].origin = edges[e].dest
             /\ edges[edges[e].reverse].dest = edges[e].origin
             /\ edges[edges[e].reverse].reverse = e

\* the number of entries of list that are e
Count(list, e) == Cardinality({i \in DOMAIN list : list[i] = e})

C27_WitnessRemoveVertex ==
    /\ call.op = "removeVertex"
    /\ out.ret
    /\ ~out.uaf
    /\ Cardinality(DOMAIN idToVertexMap) = 1
    /\ edges = EmptyMap
    /\ \A v \in DOMAIN idToVertexMap : idToVertexMap[v].incoming = <<>>

\* C28: removeVertex(v) never reads an edge it has already deleted, parallel
\* incoming edges from one origin and self-loops included: no call reads a
\* freed edge, and none ends the process.
C28_RemoveVertexReadsLiveEdges ==
    call.op = "removeVertex" => (~out.uaf /\ ~crashed)

(***************************************************************************)
(* The alternate route (checked under SpecCompose).                        *)
(***************************************************************************)
\* drive-time distances from origin over the edges of E, by k rounds of
\* relaxation
RECURSIVE DriveDistancesOver(_, _, _)
DriveDistancesOver(E, origin, k) ==
    IF k = 0
    THEN [v \in DOMAIN idToVertexMap |-> IF v = origin THEN 0 ELSE INF]
    ELSE LET D == DriveDistancesOver(E, origin, k - 1)
         IN [v \in DOMAIN idToVertexMap |->
                SetMin({D[v]} \cup {D[edges[e].origin] + edges[e].driveTime :
                                    e \in {x \in E : /\ edges[x].dest = v
                                                     /\ D[edges[x].origin] < INF}})]

\* the least drive time from the origin to the destination of the call when
\* the edges of the primary route are taken out of the graph
ShortestWithoutPrimary ==
    DriveDistancesOver({e \in DOMAIN edges : UsableDrive(e)} \ Range(out.best),
                       call.origin, Cardinality(DOMAIN idToVertexMap))[call.destination]

AlternateReported ==
    /\ call.op = "fastestDrivingPathWithAlt"
    /\ out.kind = "alt"
    /\ out.best # <<>>
    /\ out.alt # <<>>

\* C29: a reported alternate route shares no edge with the primary route, its
\* total is at least the primary total, and its total is the least drive
\* time from the origin to the destination in the graph without the edges of
\* the primary route.
C29_AlternateDisjointAndShortest ==
    AlternateReported
       => /\ Range(out.alt) \cap Range(out.best) = {}
          /\ out.altTotal >= out.bestTotal
          /\ out.altTotal = SumDriveTime(CurrentGraph, out.alt, 1)
          /\ out.altTotal = ShortestWithoutPrimary

\* the first part of C29 alone: no edge of the primary route is in the alternate
C29_AlternateDisjoint ==
    AlternateReported => Range(out.alt) \cap Range(out.best) = {}

\* the second part of C29 alone: the alternate costs at least the primary
C29_AlternateNotCheaper ==
    AlternateReported => out.altTotal >= out.bestTotal

(***************************************************************************)
(* Origin equal to destination (checked under SpecCompose).                *)
(***************************************************************************)
\* C30: dijkstraDriving and dijkstraWalking from a vertex to itself return
\* the empty path; fastestDrivingPathWithAlt from a vertex to itself reports
\* no primary and no alternate route; fastestRestrictedDrivingPath with a
\* waypoint equal to the origin or to the destination reports no route,
\* whatever the other leg is.
C30_SameEndpointsNoRoute ==
    /\ (call.op \in {"dijkstraDriving", "dijkstraWalking"} /\ call.origin = call.destination)
          => (out.kind = "path" /\ out.path = <<>>)
    /\ (call.op = "fastestDrivingPathWithAlt" /\ call.origin = call.destination)
          => (out.kind = "alt" /\ out.best = <<>> /\ out.alt = <<>>)
    /\ (call.op = "fastestRestrictedDrivingPath" /\ call.stop # <<>>
           /\ call.stop[1] \in {call.origin, call.destination})
          => out.kind = "none"

\* no route was reported for a waypoint equal to the origin although roads
\* lead from the origin to the destination
C30_Witness ==
    /\ call.op = "fastestRestrictedDrivingPath"
    /\ call.stop = <<call.origin>>
    /\ call.origin # call.destination
    /\ call.destination \in Closure({call.origin}, {e \in DOMAIN edges : UsableDrive(e)})
    /\ out.kind = "none"
    /\ ~crashed

\* no route was reported for a waypoint equal to the destination although
\* roads lead from the origin to the destination
C30_WitnessDestination ==
    /\ call.op = "fastestRestrictedDrivingPath"
    /\ call.stop = <<call.destination>>
    /\ call.origin # call.destination
    /\ call.destination \in Closure({call.origin}, {e \in DOMAIN edges : UsableDrive(e)})
    /\ out.kind = "none"

\* the alternate-route computation from a vertex with roads to itself
C30_WitnessAlt ==
    /\ call.op = "fastestDrivingPathWithAlt"
    /\ call.origin = call.destination
    /\ idToVertexMap[call.origin].adj # <<>>
    /\ out.kind = "alt"
    /\ out.best = <<>>
====
